---------------------------- MODULE Spec2Model ----------------------------
(* A model of api/index.py: the YouTube video-ID resolver                  *)
(* (extract_video_id), the comment fetcher (get_youtube_comments) and the  *)
(* four HTTP routes built on them.                                         *)
(*                                                                         *)
(* Strings are sequences of one-character strings, so that the regular     *)
(* expressions of extract_video_id can be evaluated position by position.  *)
EXTENDS Integers, Sequences, FiniteSets, TLC

VARIABLES
    YOUTUBE_API_KEY,  \* module-level credential read from the environment
    op,               \* the operation that produced the current state
    url,              \* the `url` argument of extract_video_id / GET /comments
    video_id,         \* Optional[str]: resolved ID, or the path parameter
    max_results,      \* the `max_results` argument
    upstream,         \* what the external comment API answered (NoUpstream if not called)
    calls,            \* the outbound requests issued while serving the operation
    fetched,          \* outcome of get_youtube_comments (NoFetch if not invoked)
    response          \* the HTTP response (NoResponse outside the HTTP routes)

vars == <<YOUTUBE_API_KEY, op, url, video_id, max_results, upstream, calls,
          fetched, response>>

---------------------------------------------------------------------------
(* Bounds of the model.                                                    *)

MaxBodyLen == 12   \* longest variable part of an input string
MaxItems == 2      \* longest page of items the external API returns

---------------------------------------------------------------------------
(* Python values.                                                          *)

None == [some |-> FALSE, val |-> <<>>]
Some(s) == [some |-> TRUE, val |-> s]

Min(a, b) == IF a <= b THEN a ELSE b

---------------------------------------------------------------------------
(* extract_video_id: the four regular expressions.                         *)

IdLen == 11

IdCharsWithDot ==
    {"0", "1", "2", "3", "4", "5", "6", "7", "8", "9",
     "A", "B", "C", "D", "E", "F", "G", "H", "I", "J", "K", "L", "M",
     "N", "O", "P", "Q", "R", "S", "T", "U", "V", "W", "X", "Y", "Z",
     "a", "b", "c", "d", "e", "f", "g", "h", "i", "j", "k", "l", "m",
     "n", "o", "p", "q", "r", "s", "t", "u", "v", "w", "x", "y", "z",
     "_", "-", "."}

\* The character class [0-9A-Za-z_-].
IdChars ==
    {"0", "1", "2", "3", "4", "5", "6", "7", "8", "9",
     "A", "B", "C", "D", "E", "F", "G", "H", "I", "J", "K", "L", "M",
     "N", "O", "P", "Q", "R", "S", "T", "U", "V", "W", "X", "Y", "Z",
     "a", "b", "c", "d", "e", "f", "g", "h", "i", "j", "k", "l", "m",
     "n", "o", "p", "q", "r", "s", "t", "u", "v", "w", "x", "y", "z",
     "_", "-"}

\* The literal `lit` occurs in s starting at position i.
LiteralAt(s, i, lit) ==
    /\ i + Len(lit) - 1 <= Len(s)
    /\ \A j \in 1..Len(lit) : s[i + j - 1] = lit[j]

\* The group ([0-9A-Za-z_-]{11}) matches in s starting at position i.
GroupAt(s, i) ==
    /\ i + IdLen - 1 <= Len(s)
    /\ \A j \in i..(i + IdLen - 1) : s[j] \in IdChars

\* Python's `$` (no MULTILINE flag) at position i: the end of the string, or
\* just before a newline that is the last character of the string.
DollarAt(s, i) ==
    \/ i = Len(s) + 1
    \/ i = Len(s) /\ s[i] = "\n"

\* Python's `^` (no MULTILINE flag) at position i.
CaretAt(s, i) == i = 1

\* Rule 1 with its '/' alternative dropped.
patternsOnlyVEq ==
    << [bol |-> FALSE, alts |-> << <<"v", "=">> >>, eol |-> FALSE],
       [bol |-> FALSE, alts |-> << <<"e", "m", "b", "e", "d", "/">> >>, eol |-> FALSE],
       [bol |-> FALSE, alts |-> << <<"w", "a", "t", "c", "h", "?", "v", "=">> >>, eol |-> FALSE],
       [bol |-> TRUE,  alts |-> << <<>> >>, eol |-> TRUE] >>

\* The list `patterns`.  Each pattern is (optional ^) (?:alt1|alt2|...) ( group )
\* (optional $); the trailing `.*` of the first pattern always matches (it
\* may match the empty string) and captures nothing, so it does not appear.
patterns ==
    << [bol |-> FALSE, alts |-> << <<"v", "=">>, <<"/">> >>, eol |-> FALSE],
       [bol |-> FALSE, alts |-> << <<"e", "m", "b", "e", "d", "/">> >>, eol |-> FALSE],
       [bol |-> FALSE, alts |-> << <<"w", "a", "t", "c", "h", "?", "v", "=">> >>, eol |-> FALSE],
       [bol |-> TRUE,  alts |-> << <<>> >>, eol |-> TRUE] >>

\* Alternative k of pattern p matches s at position i (the whole pattern).
AltMatchesAt(p, s, i, k) ==
    /\ p.bol => CaretAt(s, i)
    /\ LiteralAt(s, i, p.alts[k])
    /\ GroupAt(s, i + Len(p.alts[k]))
    /\ p.eol => DollarAt(s, i + Len(p.alts[k]) + IdLen)

\* The pattern matches at position i: the regex engine tries the
\* alternatives left to right and keeps the first that lets the rest match.
MatchesAt(p, s, i) == \E k \in 1..Len(p.alts) : AltMatchesAt(p, s, i, k)

FirstAlt(p, s, i) ==
    CHOOSE k \in 1..Len(p.alts) :
        /\ AltMatchesAt(p, s, i, k)
        /\ \A k2 \in 1..(k - 1) : ~AltMatchesAt(p, s, i, k2)

\* match.group(1) of a match of p at position i.
Group1(p, s, i) ==
    LET start == i + Len(p.alts[FirstAlt(p, s, i)])
    IN  SubSeq(s, start, start + IdLen - 1)

\* re.search(pattern, url): the leftmost position where the pattern matches;
\* the result is match.group(1), or None when there is no match.
re_search(p, s) ==
    IF \E i \in 1..(Len(s) + 1) : MatchesAt(p, s, i)
    THEN LET first == CHOOSE i \in 1..(Len(s) + 1) :
                          /\ MatchesAt(p, s, i)
                          /\ \A i2 \in 1..(i - 1) : ~MatchesAt(p, s, i2)
         IN  Some(Group1(p, s, first))
    ELSE None

\* The loop `for pattern in patterns`, from pattern number n on.
RECURSIVE TryPatterns(_, _, _)
TryPatterns(ps, n, s) ==
    IF n > Len(ps) THEN None
    ELSE LET match == re_search(ps[n], s)
         IN  IF match.some THEN match ELSE TryPatterns(ps, n + 1, s)

extract_video_id(s) == TryPatterns(patterns, 1, s)

---------------------------------------------------------------------------
(* Input strings.                                                          *)

WatchPrefix == <<"h", "t", "t", "p", "s", ":", "/", "/", "w", "w", "w", ".", "y", "o", "u", "t", "u", "b", "e", ".", "c", "o", "m", "/", "w", "a", "t", "c", "h", "?", "v", "=">>
ShortPrefix == <<"h", "t", "t", "p", "s", ":", "/", "/", "y", "o", "u", "t", "u", ".", "b", "e", "/">>
EmbedPrefix == <<"h", "t", "t", "p", "s", ":", "/", "/", "w", "w", "w", ".", "y", "o", "u", "t", "u", "b", "e", ".", "c", "o", "m", "/", "e", "m", "b", "e", "d", "/">>
\* a URL in which an 11-character path segment precedes embed/
ShadowPrefix == <<"h", "t", "t", "p", "s", ":", "/", "/", "y", "o", "u", "t", "u", ".", "b", "e", "/", "a", "a", "a", "a", "a", "a", "a", "a", "a", "a", "a", "/", "e", "m", "b", "e", "d", "/">>
NotAUrl == <<"n", "o", "t", "-", "a", "-", "u", "r", "l">>
BareEmbed == <<"e", "m", "b", "e", "d", "/">>
BareWatch == <<"w", "a", "t", "c", "h", "?", "v", "=">>
BareVEq == <<"v", "=">>
TimeSuffix == <<"&", "t", "=", "1", "s">>
Newline == <<"\n">>

Prefixes == {<<>>, WatchPrefix, ShortPrefix, EmbedPrefix, ShadowPrefix,
             NotAUrl, BareEmbed, BareWatch, BareVEq}
Suffixes == {<<>>, TimeSuffix, Newline}
BodyChars == {"a", "9", "-", ".", "/"}

\* n characters: k times c1, then c2.
Body(n, k, c1, c2) == [i \in 1..n |-> IF i <= k THEN c1 ELSE c2]

Bodies(lens) ==
    {Body(n, k, c1, c2) : n \in lens, k \in 0..MaxBodyLen, c1 \in BodyChars, c2 \in BodyChars}

ResolverInputs ==
    {p \o b \o s : p \in Prefixes, b \in Bodies(0..MaxBodyLen), s \in Suffixes}

---------------------------------------------------------------------------
(* Values of the variables an operation does not use.                      *)

NoUpstream == [called |-> FALSE]
NoFetch == [invoked |-> FALSE]
NoResponse == [status |-> 0]

---------------------------------------------------------------------------
(* The resolver on its own: extract_video_id applied to an input string.   *)

InitResolve ==
    /\ YOUTUBE_API_KEY \in {"", "KEY"}
    /\ op = "input"
    /\ url \in ResolverInputs
    /\ video_id = None
    /\ max_results = 0
    /\ upstream = NoUpstream
    /\ calls = <<>>
    /\ fetched = NoFetch
    /\ response = NoResponse

Resolve ==
    /\ op = "input"
    /\ op' = "extract_video_id"
    /\ video_id' = extract_video_id(url)
    /\ UNCHANGED <<YOUTUBE_API_KEY, url, max_results, upstream, calls, fetched, response>>

NextResolve == Resolve

SpecResolve == InitResolve /\ [][NextResolve]_vars

---------------------------------------------------------------------------
(* The external comment API (googleapiclient), seen from the fetcher.      *)

\* A commentThreads item: the thread's snippet holds the top-level comment
\* and the thread's totalReplyCount.
Thread(comment, replies) ==
    [snippet |-> [topLevelComment |-> [snippet |-> comment],
                  totalReplyCount |-> replies]]

CommentA ==
    [authorDisplayName |-> "alice", textDisplay |-> "first",
     likeCount |-> 3, publishedAt |-> "2024-02-01T00:00:00Z"]
CommentB ==
    [authorDisplayName |-> "bob", textDisplay |-> "second",
     likeCount |-> 0, publishedAt |-> "2024-03-01T00:00:00Z"]
\* a comment snippet without likeCount
CommentNoLikes ==
    [authorDisplayName |-> "carol", textDisplay |-> "third",
     publishedAt |-> "2024-04-01T00:00:00Z"]

GoodItems == {Thread(CommentA, 1), Thread(CommentB, 2)}
BadItems ==
    {[id |-> "thread-without-snippet"],
     [snippet |-> [topLevelComment |-> [snippet |-> CommentA]]],
     Thread(CommentNoLikes, 0)}
Items == GoodItems \cup BadItems

RECURSIVE SeqsUpTo(_, _)
SeqsUpTo(S, n) ==
    IF n = 0 THEN {<<>>}
    ELSE LET shorter == SeqsUpTo(S, n - 1)
         IN  shorter \cup {Append(q, x) : q \in shorter, x \in S}

UpstreamErrors == {"quotaExceeded", "videoNotFound"}

\* What the client library does for one fetch: build() or execute() raises
\* an exception with text `error`, or execute() returns a response body,
\* with or without an 'items' key.
UpstreamOutcomes ==
    {[called |-> TRUE, raises |-> TRUE, stage |-> st, error |-> e] :
        st \in {"build", "execute"}, e \in UpstreamErrors}
    \cup {[called |-> TRUE, raises |-> FALSE, body |-> [items |-> q]] :
            q \in SeqsUpTo(Items, MaxItems)}
    \cup {[called |-> TRUE, raises |-> FALSE, body |-> [kind |-> "youtube#commentThreadListResponse"]]}

---------------------------------------------------------------------------
(* get_youtube_comments.                                                   *)

MaxResultsCap == 100

HTTPException(code, text) == [raised |-> TRUE, status_code |-> code, detail |-> text]
Return(v) == [raised |-> FALSE, value |-> v]

\* The mock data returned when no API key is set.
MockComments ==
    << [author |-> "Demo User",
        text |-> "This is a demo comment. Set YOUTUBE_API_KEY environment variable to fetch real comments.",
        likes |-> 0,
        published_at |-> "2024-01-01T00:00:00Z",
        reply_count |-> 0] >>

UncappedMaxResults(m) == m

\* maxResults=min(max_results, 100)
EffectiveMaxResults(m) == Min(m, MaxResultsCap)

\* The arguments of youtube.commentThreads().list(...).
ListRequest(vid, m) ==
    [part |-> "snippet", videoId |-> vid, maxResults |-> EffectiveMaxResults(m),
     order |-> "relevance", textFormat |-> "plainText"]

\* The key whose lookup raises KeyError while one item is converted, in the
\* order the loop body evaluates its subscripts; "" when none is missing.
MissingKey(item) ==
    IF "snippet" \notin DOMAIN item THEN "snippet"
    ELSE IF "topLevelComment" \notin DOMAIN item.snippet THEN "topLevelComment"
    ELSE IF "snippet" \notin DOMAIN item.snippet.topLevelComment THEN "snippet"
    ELSE LET comment == item.snippet.topLevelComment.snippet
         IN  IF "authorDisplayName" \notin DOMAIN comment THEN "authorDisplayName"
             ELSE IF "textDisplay" \notin DOMAIN comment THEN "textDisplay"
             ELSE IF "likeCount" \notin DOMAIN comment THEN "likeCount"
             ELSE IF "publishedAt" \notin DOMAIN comment THEN "publishedAt"
             ELSE IF "totalReplyCount" \notin DOMAIN item.snippet THEN "totalReplyCount"
             ELSE ""

\* The dictionary appended to `comments` for one item.
CommentDict(item) ==
    LET comment == item.snippet.topLevelComment.snippet
    IN  [author |-> comment.authorDisplayName,
         text |-> comment.textDisplay,
         likes |-> comment.likeCount,
         published_at |-> comment.publishedAt,
         reply_count |-> item.snippet.totalReplyCount]

\* str(KeyError(k))
KeyErrorText(k) == "'" \o k \o "'"

\* The `except Exception as e` clause.
FetchError(text) == HTTPException(500, "Error fetching comments: " \o text)

\* A loop that drops the items it cannot convert.
RECURSIVE ConvertItemsSkipping(_, _, _)
ConvertItemsSkipping(items, n, comments) ==
    IF n > Len(items) THEN Return(comments)
    ELSE IF MissingKey(items[n]) # ""
         THEN ConvertItemsSkipping(items, n + 1, comments)
         ELSE ConvertItemsSkipping(items, n + 1, Append(comments, CommentDict(items[n])))

\* The loop `for item in response.get('items', [])` from item n on, with the
\* list `comments` built so far: the first KeyError leaves the loop (and the
\* try block), whatever was appended before.
RECURSIVE ConvertItems(_, _, _)
ConvertItems(items, n, comments) ==
    IF n > Len(items) THEN Return(comments)
    ELSE IF MissingKey(items[n]) # ""
         THEN FetchError(KeyErrorText(MissingKey(items[n])))
         ELSE ConvertItems(items, n + 1, Append(comments, CommentDict(items[n])))

\* response.get('items', [])
GetItems(body) == IF "items" \in DOMAIN body THEN body.items ELSE <<>>

\* A fetcher without the `if not YOUTUBE_API_KEY` branch.
get_youtube_comments_no_mock(vid, m, up) ==
    IF up.raises
    THEN [calls |-> IF up.stage = "build" THEN <<>> ELSE <<ListRequest(vid, m)>>,
          upstream |-> up,
          result |-> FetchError(up.error)]
    ELSE [calls |-> <<ListRequest(vid, m)>>,
          upstream |-> up,
          result |-> ConvertItems(GetItems(up.body), 1, <<>>)]

\* A fetcher that issues the request a second time when execute() fails.
get_youtube_comments_retrying(vid, m, up) ==
    IF YOUTUBE_API_KEY = ""
    THEN [calls |-> <<>>, upstream |-> [called |-> FALSE], result |-> Return(MockComments)]
    ELSE IF up.raises
    THEN [calls |-> IF up.stage = "build" THEN <<>>
                    ELSE <<ListRequest(vid, m), ListRequest(vid, m)>>,
          upstream |-> up,
          result |-> FetchError(up.error)]
    ELSE [calls |-> <<ListRequest(vid, m)>>,
          upstream |-> up,
          result |-> ConvertItems(GetItems(up.body), 1, <<>>)]

\* get_youtube_comments(video_id, max_results), when the client library
\* behaves as `up`: the outbound requests issued, what the library answered
\* (if it was used at all), and the value returned or exception raised.
get_youtube_comments(vid, m, up) ==
    IF YOUTUBE_API_KEY = ""
    THEN [calls |-> <<>>, upstream |-> [called |-> FALSE], result |-> Return(MockComments)]
    ELSE IF up.raises
    THEN [calls |-> IF up.stage = "build" THEN <<>> ELSE <<ListRequest(vid, m)>>,
          upstream |-> up,
          result |-> FetchError(up.error)]
    ELSE [calls |-> <<ListRequest(vid, m)>>,
          upstream |-> up,
          result |-> ConvertItems(GetItems(up.body), 1, <<>>)]

\* The record kept of one invocation of the fetcher.
Fetched(vid, m, result) ==
    [invoked |-> TRUE, video_id |-> vid, max_results |-> m, result |-> result]

---------------------------------------------------------------------------
(* The fetcher on its own: get_youtube_comments called with any integer.   *)

FetchIds == {Body(11, 4, "9", "-"), Body(11, 11, "a", "a")}
MaxResultsInputs == {-1, 0, 1, 50, 100, 101, 250}

InitFetch ==
    /\ YOUTUBE_API_KEY \in {"", "KEY"}
    /\ op = "start"
    /\ url = <<>>
    /\ video_id = None
    /\ max_results = 0
    /\ upstream = NoUpstream
    /\ calls = <<>>
    /\ fetched = NoFetch
    /\ response = NoResponse

\* One call of the fetcher, from its caller's point of view.
Fetch ==
    \E vid \in FetchIds, m \in MaxResultsInputs, up \in UpstreamOutcomes :
        LET r == get_youtube_comments(vid, m, up)
        IN  /\ op = "start"
            /\ op' = "get_youtube_comments"
            /\ video_id' = Some(vid)
            /\ max_results' = m
            /\ upstream' = r.upstream
            /\ calls' = r.calls
            /\ fetched' = Fetched(vid, m, r.result)
            /\ UNCHANGED <<YOUTUBE_API_KEY, url, response>>

\* The caller is done with the result and may call again.
FetchDone ==
    /\ op = "get_youtube_comments"
    /\ op' = "start"
    /\ video_id' = None
    /\ max_results' = 0
    /\ upstream' = NoUpstream
    /\ calls' = <<>>
    /\ fetched' = NoFetch
    /\ UNCHANGED <<YOUTUBE_API_KEY, url, response>>

NextFetch == Fetch \/ FetchDone

SpecFetch == InitFetch /\ [][NextFetch]_vars

---------------------------------------------------------------------------
(* The HTTP routes.                                                        *)

\* Query(100, ge=1, le=100): the framework hands max_results to a handler
\* only when it is within these limits.
QueryValid(m) == m >= 1 /\ m <= 100

UniformBodies == {Body(n, n, c, c) : n \in {0, 10, 11, 12}, c \in BodyChars}
HttpUrls == {p \o b \o s : p \in Prefixes, b \in UniformBodies, s \in Suffixes}
\* path parameters: a path segment is not empty and holds no '/'
PathIds ==
    {Body(n, k, c1, c2) : n \in {5, 10, 11, 12}, k \in {0, 4},
                          c1 \in BodyChars \ {"/"}, c2 \in BodyChars \ {"/"}}

\* The response FastAPI sends for a raised HTTPException.
ErrorResponse(e) == [status |-> e.status_code, detail |-> e.detail]
\* The response FastAPI sends for a returned dictionary.
OkResponse(body) == [status |-> 200, body |-> body]

NeverFalsy(v) == FALSE

\* Python's `not video_id` for an Optional[str]: None or the empty string.
Not(v) == ~v.some \/ v.val = <<>>

\* The dictionary both comment routes return.
CommentsBody(vid, comments) ==
    [video_id |-> vid, comment_count |-> Len(comments), comments |-> comments]

Init ==
    /\ YOUTUBE_API_KEY \in {"", "KEY"}
    /\ op = "idle"
    /\ url = <<>>
    /\ video_id = None
    /\ max_results = 0
    /\ upstream = NoUpstream
    /\ calls = <<>>
    /\ fetched = NoFetch
    /\ response = NoResponse

read_root ==
    /\ op = "idle"
    /\ op' = "read_root"
    /\ url' = <<>>
    /\ video_id' = None
    /\ max_results' = 0
    /\ upstream' = NoUpstream
    /\ calls' = <<>>
    /\ fetched' = NoFetch
    /\ response' = OkResponse(
           [name |-> "YouTube Comments API",
            version |-> "1.0.0",
            endpoints |-> [comments |-> "GET - Fetch YouTube comments",
                           health |-> "GET - Health check"],
            example |-> "/comments?url=https://www.youtube.com/watch?v=dQw4w9WgXcQ&max_results=50"])
    /\ UNCHANGED YOUTUBE_API_KEY

health_check ==
    /\ op = "idle"
    /\ op' = "health_check"
    /\ url' = <<>>
    /\ video_id' = None
    /\ max_results' = 0
    /\ upstream' = NoUpstream
    /\ calls' = <<>>
    /\ fetched' = NoFetch
    /\ response' = OkResponse([status |-> "healthy",
                               api_key_configured |-> (YOUTUBE_API_KEY # "")])
    /\ UNCHANGED YOUTUBE_API_KEY

\* The part both comment routes share once they hold a video ID: call the
\* fetcher and answer with its result, or with the exception it raised.
FetchAndAnswer(vid, m, up) ==
    LET r == get_youtube_comments(vid, m, up)
    IN  /\ upstream' = r.upstream
        /\ calls' = r.calls
        /\ fetched' = Fetched(vid, m, r.result)
        /\ response' = IF r.result.raised
                       THEN ErrorResponse(r.result)
                       ELSE OkResponse(CommentsBody(vid, r.result.value))

\* The exception raised before the fetcher is reached.
Reject(text) ==
    /\ upstream' = NoUpstream
    /\ calls' = <<>>
    /\ fetched' = NoFetch
    /\ response' = ErrorResponse(HTTPException(400, text))

get_comments ==
    \E u \in HttpUrls, m \in {x \in MaxResultsInputs : QueryValid(x)} :
        /\ op = "idle"
        /\ op' = "get_comments"
        /\ url' = u
        /\ max_results' = m
        /\ video_id' = extract_video_id(u)
        /\ IF Not(video_id')
           THEN Reject("Invalid YouTube URL or video ID. Please provide a valid YouTube video URL.")
           ELSE \E up \in UpstreamOutcomes : FetchAndAnswer(video_id'.val, m, up)
        /\ UNCHANGED YOUTUBE_API_KEY

get_comments_by_id ==
    \E id \in PathIds, m \in {x \in MaxResultsInputs : QueryValid(x)} :
        /\ op = "idle"
        /\ op' = "get_comments_by_id"
        /\ url' = <<>>
        /\ max_results' = m
        /\ video_id' = Some(id)
        /\ IF Len(id) # 11
           THEN Reject("Invalid video ID format. YouTube video IDs are 11 characters long.")
           ELSE \E up \in UpstreamOutcomes : FetchAndAnswer(id, m, up)
        /\ UNCHANGED YOUTUBE_API_KEY

\* The response has been sent; the application waits for the next request.
\* Nothing of a request outlives it: only the credential is process state.
request_done ==
    /\ op # "idle"
    /\ op' = "idle"
    /\ url' = <<>>
    /\ video_id' = None
    /\ max_results' = 0
    /\ upstream' = NoUpstream
    /\ calls' = <<>>
    /\ fetched' = NoFetch
    /\ response' = NoResponse
    /\ UNCHANGED YOUTUBE_API_KEY

Next ==
    \/ read_root
    \/ health_check
    \/ get_comments
    \/ get_comments_by_id
    \/ request_done

Spec == Init /\ [][Next]_vars

---------------------------------------------------------------------------
(* The data model's VideoId: exactly 11 characters of [0-9A-Za-z_-].       *)

Digits == {"0", "1", "2", "3", "4", "5", "6", "7", "8", "9"}
UpperCase == {"A", "B", "C", "D", "E", "F", "G", "H", "I", "J", "K", "L", "M",
              "N", "O", "P", "Q", "R", "S", "T", "U", "V", "W", "X", "Y", "Z"}
LowerCase == {"a", "b", "c", "d", "e", "f", "g", "h", "i", "j", "k", "l", "m",
              "n", "o", "p", "q", "r", "s", "t", "u", "v", "w", "x", "y", "z"}
VideoIdAlphabet == Digits \cup UpperCase \cup LowerCase \cup {"_", "-"}

IsVideoId(s) == Len(s) = 11 /\ \A i \in 1..Len(s) : s[i] \in VideoIdAlphabet

\* s begins with p
StartsWith(s, p) == Len(p) <= Len(s) /\ SubSeq(s, 1, Len(p)) = p
\* what follows the first n characters of s
After(s, n) == SubSeq(s, n + 1, Len(s))
\* the literal lit occurs somewhere in s
Contains(s, lit) == \E i \in 1..Len(s) : LiteralAt(s, i, lit)

---------------------------------------------------------------------------
(* Properties of the resolver (checked under SpecResolve).                 *)

\* C1: for every 11-character X over [0-9A-Za-z_-], the inputs
\* https://www.youtube.com/watch?v=X and https://youtu.be/X resolve to X: no
\* '/' or 'v=' of the fixed prefix captures anything else.
C1_CanonicalUrls ==
    \A p \in {WatchPrefix, ShortPrefix} :
        (/\ op = "extract_video_id"
         /\ StartsWith(url, p)
         /\ IsVideoId(After(url, Len(p))))
        => video_id = Some(After(url, Len(p)))

C1_Witness ==
    /\ op = "extract_video_id"
    /\ url = WatchPrefix \o Body(11, 4, "9", "-")
    /\ video_id = Some(Body(11, 4, "9", "-"))

\* C2: an input of exactly 11 characters of [0-9A-Za-z_-] is returned
\* unchanged, and rule 4 (the bare-ID rule) yields a result if and only if
\* the entire input is exactly 11 characters of that alphabet.
C2_BareId ==
    op = "extract_video_id" =>
        /\ IsVideoId(url) => video_id = Some(url)
        /\ re_search(patterns[4], url).some <=> IsVideoId(url)

\* C3: the empty string, and every input whose length is not 11 and that
\* contains neither '/' nor 'v=', resolves to None.
C3_NotFound ==
    (/\ op = "extract_video_id"
     /\ Len(url) # 11
     /\ ~Contains(url, <<"/">>)
     /\ ~Contains(url, <<"v", "=">>))
    => video_id = None

\* C10: the rules are tried in order and the first match decides; every
\* input matched by rule 2 or rule 3 is matched by rule 1 as well, so the
\* result is always that of a resolver with rule 1 followed by rule 4 only.
C10_Rules23Shadowed ==
    op = "extract_video_id" =>
        /\ \A n \in {2, 3} :
               re_search(patterns[n], url).some => re_search(patterns[1], url).some
        /\ video_id = TryPatterns(<<patterns[1], patterns[4]>>, 1, url)

\* rule 2 matches too, with another capture than the one rule 1 decides
C10_Witness ==
    /\ op = "extract_video_id"
    /\ url = ShadowPrefix \o Body(11, 11, "9", "9")
    /\ re_search(patterns[2], url) = Some(Body(11, 11, "9", "9"))
    /\ video_id = Some(Body(11, 11, "a", "a"))

---------------------------------------------------------------------------
(* Properties of the fetcher (checked under SpecFetch).                    *)

\* an item of the external API that holds every field the fetcher reads
WellFormed(item) ==
    /\ "snippet" \in DOMAIN item
    /\ {"topLevelComment", "totalReplyCount"} \subseteq DOMAIN item.snippet
    /\ "snippet" \in DOMAIN item.snippet.topLevelComment
    /\ {"authorDisplayName", "textDisplay", "likeCount", "publishedAt"}
           \subseteq DOMAIN item.snippet.topLevelComment.snippet

\* the CommentRecord of a well-formed item: the reply count is the thread's,
\* everything else the top-level comment's
CommentRecord(item) ==
    [author |-> item.snippet.topLevelComment.snippet.authorDisplayName,
     text |-> item.snippet.topLevelComment.snippet.textDisplay,
     likes |-> item.snippet.topLevelComment.snippet.likeCount,
     published_at |-> item.snippet.topLevelComment.snippet.publishedAt,
     reply_count |-> item.snippet.totalReplyCount]

\* C4: without a credential, get_youtube_comments returns exactly one record,
\* with author "Demo User", likes 0 and reply_count 0, the same whatever the
\* video ID and max_results, and issues no call to the external API.
C4_MockWithoutKey ==
    (op = "get_youtube_comments" /\ YOUTUBE_API_KEY = "") =>
        /\ ~fetched.result.raised
        /\ Len(fetched.result.value) = 1
        /\ fetched.result.value[1] =
               [author |-> "Demo User",
                text |-> "This is a demo comment. Set YOUTUBE_API_KEY environment variable to fetch real comments.",
                likes |-> 0,
                published_at |-> "2024-01-01T00:00:00Z",
                reply_count |-> 0]
        /\ calls = <<>>
        /\ upstream = NoUpstream

C4_Witness ==
    /\ op = "get_youtube_comments"
    /\ YOUTUBE_API_KEY = ""
    /\ max_results = 50
    /\ fetched.video_id = Body(11, 4, "9", "-")
    /\ fetched.result.value[1].author = "Demo User"

\* C5: with a credential, the count requested from the external API is
\* min(max_results, 100) for every integer max_results: it never exceeds
\* 100, and a call with max_results = 250 issues the request and yields the
\* result of a call with max_results = 100.
C5_CapAt100 ==
    (op = "get_youtube_comments" /\ YOUTUBE_API_KEY # "") =>
        /\ \A i \in 1..Len(calls) :
               /\ calls[i].maxResults = (IF max_results <= 100 THEN max_results ELSE 100)
               /\ calls[i].maxResults <= 100
        /\ max_results = 250 =>
               /\ calls = get_youtube_comments(fetched.video_id, 100, upstream).calls
               /\ fetched.result = get_youtube_comments(fetched.video_id, 100, upstream).result

C5_Witness ==
    /\ op = "get_youtube_comments"
    /\ YOUTUBE_API_KEY # ""
    /\ max_results = 250
    /\ Len(calls) = 1
    /\ calls[1].maxResults = 100
    /\ ~fetched.result.raised
    /\ Len(fetched.result.value) = 2

\* C6: with a credential, a fetch either returns one normalized record per
\* upstream item, in upstream order, or fails with a single HTTP 500 carrying
\* the error text; when the external call fails or any item is malformed,
\* also after well-formed ones, no record is returned, and nothing is retried.
C6_AllOrNothing ==
    (op = "get_youtube_comments" /\ YOUTUBE_API_KEY # "") =>
        /\ upstream.called
        /\ Len(calls) <= 1
        /\ IF upstream.raises
           THEN /\ fetched.result.raised
                /\ fetched.result.status_code = 500
                /\ fetched.result.detail = "Error fetching comments: " \o upstream.error
                /\ "value" \notin DOMAIN fetched.result
           ELSE LET items == IF "items" \in DOMAIN upstream.body
                             THEN upstream.body.items ELSE <<>>
                IN  IF \A i \in 1..Len(items) : WellFormed(items[i])
                    THEN /\ ~fetched.result.raised
                         /\ Len(fetched.result.value) = Len(items)
                         /\ \A i \in 1..Len(items) :
                                fetched.result.value[i] = CommentRecord(items[i])
                    ELSE /\ fetched.result.raised
                         /\ fetched.result.status_code = 500
                         /\ "value" \notin DOMAIN fetched.result

\* a malformed item follows a well-formed one
C6_Witness ==
    /\ op = "get_youtube_comments"
    /\ YOUTUBE_API_KEY # ""
    /\ ~upstream.raises
    /\ upstream.body = [items |-> <<Thread(CommentA, 1), Thread(CommentNoLikes, 0)>>]
    /\ fetched.result.raised
    /\ fetched.result.status_code = 500
    /\ Len(calls) = 1

---------------------------------------------------------------------------
(* Properties of the HTTP routes (checked under Spec).                     *)

\* C7: each HTTP request triggers at most one outbound call to the external
\* comment API, and none when it is answered with 400 or when no credential
\* is configured; no request changes the process-wide credential.
C7_OneCallPerRequest ==
    /\ [](/\ Len(calls) <= 1
          /\ (response.status = 400 \/ YOUTUBE_API_KEY = "") => calls = <<>>
          /\ op \in {"read_root", "health_check"} => calls = <<>>)
    /\ [][YOUTUBE_API_KEY' = YOUTUBE_API_KEY]_vars

C7_Witness ==
    /\ op = "get_comments"
    /\ YOUTUBE_API_KEY # ""
    /\ upstream.called
    /\ upstream.raises
    /\ upstream.stage = "execute"
    /\ response.status = 500
    /\ Len(calls) = 1

\* C8: GET /comments answers 400 exactly when extract_video_id(url) finds no
\* video ID, and then the fetcher is not invoked; otherwise, when the fetch
\* succeeds, it answers 200 with the resolved ID as video_id, the fetcher's
\* result as comments and their number as comment_count (1 without a
\* credential).
C8_CommentsRoute ==
    op = "get_comments" =>
        /\ response.status = 400 <=> ~extract_video_id(url).some
        /\ response.status = 400 => (~fetched.invoked /\ calls = <<>>)
        /\ response.status # 400 =>
               /\ fetched.invoked
               /\ ~fetched.result.raised =>
                      /\ response.status = 200
                      /\ response.body.video_id = extract_video_id(url).val
                      /\ response.body.comments = fetched.result.value
                      /\ response.body.comment_count = Len(response.body.comments)
                      /\ YOUTUBE_API_KEY = "" => response.body.comment_count = 1

C8_Witness ==
    /\ op = "get_comments"
    /\ YOUTUBE_API_KEY # ""
    /\ url = WatchPrefix \o Body(11, 11, "9", "9") \o TimeSuffix
    /\ response.status = 200
    /\ response.body.video_id = Body(11, 11, "9", "9")
    /\ response.body.comment_count = 2

\* C9: on both comment routes, every video ID handed to get_youtube_comments
\* and every video_id of a 200 response is a VideoId (11 characters of
\* [0-9A-Za-z_-]), and a path-supplied ID that is not one is answered 400.
C9_OnlyVideoIds ==
    op \in {"get_comments", "get_comments_by_id"} =>
        /\ fetched.invoked => IsVideoId(fetched.video_id)
        /\ response.status = 200 => IsVideoId(response.body.video_id)
        /\ (op = "get_comments_by_id" /\ ~IsVideoId(video_id.val)) => response.status = 400

=============================================================================
